---------------------------- MODULE Spec2Model ----------------------------
(***************************************************************************)
(* Delivery aggregation (01_parse_json_to_csv.py) and feature derivation   *)
(* (02_feature_engineering.py) of the T20 xR/xW pipeline.                  *)
(*                                                                         *)
(* Python values are represented as follows.  None is the string "None".   *)
(* A dict is a function whose DOMAIN is the set of keys present, so that   *)
(* d.get(k, default) and "k in d" are decided by key presence, not by      *)
(* value.  A list is a sequence.  An exception leaves the running function *)
(* with pc = "raised" and exc naming the exception type.                   *)
(***************************************************************************)
EXTENDS Integers, Sequences, FiniteSets, TLC

VARIABLES
    pc,             \* position of the running script / function
    exc,            \* exception that ended it, None when none was raised
    deliveries,     \* deliveries of the innings consumed so far by pass 1
    batting_stats,  \* _analyze_innings_deliveries: batting_stats
    bowling_stats,  \* _analyze_innings_deliveries: bowling_stats
    total_balls,    \* _analyze_innings_deliveries: total_balls
    innings_rows,   \* _analyze_innings_deliveries: innings_rows, keyed by player
    file_paths,     \* process_all_files_to_csv: file_paths (the files found)
    file_index,     \* process_all_files_to_csv: files consumed by the loop
    combined_data,  \* process_all_files_to_csv: combined_data
    csv_written,    \* process_all_files_to_csv: whether to_csv ran
    df              \* 02_feature_engineering.py: the data frame

vars == <<pc, exc, deliveries, batting_stats, bowling_stats, total_balls,
          innings_rows, file_paths, file_index, combined_data, csv_written, df>>

innings_vars == <<deliveries, batting_stats, bowling_stats, total_balls, innings_rows>>
batch_vars == <<file_paths, file_index, combined_data, csv_written>>

-----------------------------------------------------------------------------
(* Bounds of the model.                                                    *)

MaxDeliveries == 3
MaxFiles == 3
MaxRows == 13
RowsPerInnings == 12

-----------------------------------------------------------------------------
(* Python helpers.                                                         *)

None == "None"

EmptyDict == [k \in {} |-> 0]

\* bool(x) of a name: None and the empty string are falsy.
Truthy(x) == x # None /\ x # ""

\* d.get(k, default)
Get(d, k, default) == IF k \in DOMAIN d THEN d[k] ELSE default

\* The element of a one-element set: {F(v) : v \in {e}} evaluates e once.
Only(S) == CHOOSE x \in S : TRUE

\* a or b
Or(a, b) == IF Truthy(a) THEN a ELSE b

\* m.setdefault(k, v), as the mapping after the call
setdefault(m, k, v) ==
    IF k \in DOMAIN m THEN m
    ELSE [p \in (DOMAIN m) \cup {k} |-> IF p = k THEN v ELSE m[p]]

\* Python floats are IEEE 754 doubles: 53 binary digits, every operation
\* rounded to the nearest double, ties to the even one.  A positive double is
\* [m, f], the number m / 2^f, with m an integer of 53 binary digits (or
\* 2^53) too long for one machine integer: m is the sequence of its digits
\* in base 2^12, most significant first.

LimbBits == 12
Base == 2 ^ LimbBits

\* The digits of the integer n >= 0.
RECURSIVE Limbs(_)
Limbs(n) == IF n = 0 THEN <<>> ELSE Append(Limbs(n \div Base), n % Base)

\* The integer of the digits x.
RECURSIVE ToInt(_)
ToInt(x) == IF x = <<>> THEN 0 ELSE ToInt(SubSeq(x, 1, Len(x) - 1)) * Base + x[Len(x)]

\* The number of binary digits of the integer n >= 0.
RECURSIVE BitLength(_)
BitLength(n) == IF n = 0 THEN 0 ELSE 1 + BitLength(n \div 2)

\* x without its leading zeros.
Strip(x) ==
    IF \A i \in 1..Len(x) : x[i] = 0 THEN <<>>
    ELSE SubSeq(x, CHOOSE i \in 1..Len(x) : x[i] # 0 /\ \A k \in 1..(i - 1) : x[k] = 0,
                Len(x))

\* The number of binary digits of the integer of x, x without leading zeros.
BinaryDigits(x) == IF x = <<>> THEN 0 ELSE LimbBits * (Len(x) - 1) + BitLength(x[1])

\* The digits of x * c + carry, for an integer 0 < c < Base.
RECURSIVE Times(_, _, _)
Times(x, c, carry) ==
    IF x = <<>> THEN Limbs(carry)
    ELSE Append(Times(SubSeq(x, 1, Len(x) - 1), c, (x[Len(x)] * c + carry) \div Base),
                (x[Len(x)] * c + carry) % Base)

\* Long division of x by an integer 0 < d < 2^19: the digits q of the
\* quotient, as many as x has, and the remainder r.
RECURSIVE LongDivision(_, _)
LongDivision(x, d) ==
    IF x = <<>> THEN [q |-> <<>>, r |-> 0]
    ELSE Only({[q |-> Append(h.q, (h.r * Base + x[Len(x)]) \div d),
                r |-> (h.r * Base + x[Len(x)]) % d] :
                 h \in {LongDivision(SubSeq(x, 1, Len(x) - 1), d)}})

\* The digits of the integer of x plus one.
Incr(x) ==
    IF \A i \in 1..Len(x) : x[i] = Base - 1
    THEN <<1>> \o [i \in 1..Len(x) |-> 0]
    ELSE LET j == CHOOSE i \in 1..Len(x) :
                     x[i] # Base - 1 /\ \A k \in (i + 1)..Len(x) : x[k] = Base - 1
         IN  [i \in 1..Len(x) |-> IF i < j THEN x[i] ELSE IF i = j THEN x[i] + 1 ELSE 0]

IsOdd(x) == x # <<>> /\ x[Len(x)] % 2 = 1

\* Round to nearest, ties to even: the integer nearest to (x + e) / d, where
\* 0 <= e < 1 and more tells that e > 0.
Nearest(x, d, more) ==
    Only({IF 2 * h.r > d \/ (2 * h.r = d /\ (more \/ IsOdd(h.q)))
          THEN Incr(Strip(h.q)) ELSE Strip(h.q) :
             h \in {LongDivision(x, d)}})

\* The digits of n * 2^s.
Shifted(n, s) ==
    Times(Limbs(n), 2 ^ (s % LimbBits), 0) \o [i \in 1..(s \div LimbBits) |-> 0]

\* n / d for integers n > 0 and d > 0: the quotient, correctly rounded.
\* n * 2^s / d has 52 or 53 binary digits before the point for the first s
\* tried, and 53 for the s taken.
TrueDivide(n, d) ==
    Only({[m |-> Nearest(Shifted(n, s), d, FALSE), f |-> s] :
            s \in {IF BinaryDigits(Strip(LongDivision(
                         Shifted(n, 52 + BitLength(d) - BitLength(n)), d).q)) >= 53
                   THEN 52 + BitLength(d) - BitLength(n)
                   ELSE 53 + BitLength(d) - BitLength(n)}})

\* x * c for a double x and an integer 0 < c < Base: the product, rounded
\* to 53 binary digits.
Multiply(x, c) ==
    Only({Only({[m |-> Nearest(p, 2 ^ t, FALSE), f |-> x.f - t] :
                  t \in {IF BinaryDigits(p) > 53 THEN BinaryDigits(p) - 53 ELSE 0}}) :
            p \in {Times(x.m, c, 0)}})

\* round(x, 2) of a double x > 0, in hundredths: the decimal of two places
\* nearest to the exact value of x, the integer nearest to 100 m / 2^f.  The
\* last a digits of 100 m are dropped and the rest divided by 2^b, where
\* f = 12 a + b and 1 <= b <= 12.
Round2(x) ==
    LET a == (x.f - 1) \div LimbBits
        b == x.f - LimbBits * a
    IN  Only({ToInt(Nearest(SubSeq(p, 1, Len(p) - a), 2 ^ b,
                            \E i \in 1..Len(p) : i > Len(p) - a /\ p[i] # 0)) :
                p \in {Times(x.m, 100, 0)}})

\* round((n / d) * c, 2) in hundredths, for integers n, d > 0 and c > 0.
RoundedRate(n, d, c) ==
    IF n = 0 THEN 0
    ELSE IF n < 0 THEN 0 - Only({Round2(Multiply(q, c)) : q \in {TrueDivide(0 - n, d)}})
    ELSE Only({Round2(Multiply(q, c)) : q \in {TrueDivide(n, d)}})

-----------------------------------------------------------------------------
(* _analyze_innings_deliveries, pass 1: the body of the delivery loop.     *)

\* The dict a batter is initialised with (line 34).  '4s' and '6s' are the
\* fields fours and sixes.
NewBatter ==
    [runs |-> 0, balls_faced |-> 0, fours |-> 0, sixes |-> 0,
     dismissal |-> None, out_by |-> None, is_bowling |-> FALSE]

\* The dict a bowler is given in the batting map (line 49): it has no 'runs'.
BowlerStub == [is_bowling |-> FALSE]

\* The dict a bowler is initialised with (line 48).
NewBowler ==
    [runs_conceded |-> 0, balls_bowled |-> 0, wickets |-> 0, extras |-> 0,
     is_batting |-> FALSE]

\* Line 28.
is_valid_ball_Mutant(extras_data) ==
    Get(extras_data, "wides", 0) = 0 /\ Get(extras_data, "noballs", 0) = 0
is_valid_ball(extras_data) ==
    "wides" \notin DOMAIN extras_data /\ "noballs" \notin DOMAIN extras_data

\* Line 59.
BowlerKinds == {"caught", "bowled", "lbw", "stumped", "hit wicket"}
is_bowler_wicket(kind) == kind \in BowlerKinds

\* wickets_data[0].get('fielders', [{}]): a wicket event is a record with the
\* fields kind, player_out, has_fielders (the key is present) and fielders
\* (the 'name' of each listed fielder, None for a fielder without a name).
FieldersOf(w) == IF w.has_fielders THEN w.fielders ELSE <<None>>

\* Lines 33-44: the batter's part of the loop body.  The result carries the
\* exception raised, if any: batting_stats[batter]['runs'] raises KeyError on
\* the dict of line 49, and [0] of an empty fielders list raises IndexError.
BatterRuns_Mutant(runs_data, valid) == IF valid THEN Get(runs_data, "batter", 0) ELSE 0
BatterRuns(runs_data, valid) == Get(runs_data, "batter", 0)

\* Lines 35-39 on the batter's dict e.
ScoreBall(e, runs_data, valid) ==
    [e EXCEPT !.runs = @ + BatterRuns(runs_data, valid),
              !.balls_faced = IF valid THEN @ + 1 ELSE @,
              !.fours = IF Get(runs_data, "batter", 0) = 4 THEN @ + 1 ELSE @,
              !.sixes = IF Get(runs_data, "batter", 0) = 6 THEN @ + 1 ELSE @]

\* Lines 41-44 on the batter's dict e: only wickets_data[0] is looked at.
RecordDismissal(e, d) ==
    IF Len(d.wickets) > 0 /\ d.wickets[1].player_out = d.batter
    THEN IF Len(FieldersOf(d.wickets[1])) = 0
         THEN [entry |-> [e EXCEPT !.dismissal = d.wickets[1].kind],
               exc |-> "IndexError"]
         ELSE [entry |-> [e EXCEPT !.dismissal = d.wickets[1].kind,
                                   !.out_by = Or(FieldersOf(d.wickets[1])[1], d.bowler)],
               exc |-> None]
    ELSE [entry |-> e, exc |-> None]

UpdateBatter(bs, d) ==
    IF ~Truthy(d.batter) THEN [stats |-> bs, exc |-> None]
    ELSE LET b0 == setdefault(bs, d.batter, NewBatter)
         IN  IF "runs" \notin DOMAIN b0[d.batter]
             THEN [stats |-> b0, exc |-> "KeyError"]
             ELSE LET r == RecordDismissal(
                              ScoreBall(b0[d.batter], d.runs, is_valid_ball(d.extras)), d)
                  IN  [stats |-> [b0 EXCEPT ![d.batter] = r.entry], exc |-> r.exc]

\* Line 53: the extras a delivery adds to its bowler.
BowlerExtras_Mutant(d) ==
    Get(d.extras, "wides", 0) + Get(d.extras, "noballs", 0)
      + Get(d.extras, "byes", 0) + Get(d.extras, "legbyes", 0)
BowlerExtras(d) == Get(d.runs, "extras", 0)

\* Lines 47-63: the bowler's part of the loop body, on the bowling map.
UpdateBowler(ws, d) ==
    IF ~Truthy(d.bowler) THEN ws
    ELSE LET w0 == setdefault(ws, d.bowler, NewBowler)
         IN  [w0 EXCEPT ![d.bowler] =
                [@ EXCEPT
                   !.runs_conceded = @ + Get(d.runs, "total", 0)
                                       - Get(d.extras, "byes", 0)
                                       - Get(d.extras, "legbyes", 0),
                   !.extras = @ + BowlerExtras(d),
                   !.balls_bowled = IF is_valid_ball(d.extras) THEN @ + 1 ELSE @,
                   !.wickets = IF Len(d.wickets) > 0
                                  /\ is_bowler_wicket(d.wickets[1].kind)
                               THEN @ + 1 ELSE @,
                   !.is_batting = TRUE]]

\* Lines 20-63: one iteration of the loop on the state
\* [batting_stats, bowling_stats, total_balls, exc].
LoopBody(s, d) ==
    LET b == UpdateBatter(s.batting_stats, d)
    IN  [batting_stats |-> IF b.exc = None /\ Truthy(d.bowler)
                           THEN setdefault(b.stats, d.bowler, BowlerStub)
                           ELSE b.stats,
         bowling_stats |-> IF b.exc = None THEN UpdateBowler(s.bowling_stats, d)
                           ELSE s.bowling_stats,
         total_balls |-> IF is_valid_ball(d.extras) THEN s.total_balls + 1
                         ELSE s.total_balls,
         exc |-> b.exc]

\* Lines 14-16.
LoopStart ==
    [batting_stats |-> EmptyDict, bowling_stats |-> EmptyDict,
     total_balls |-> 0, exc |-> None]

-----------------------------------------------------------------------------
(* _analyze_innings_deliveries, pass 2: one row per player.                *)

\* Lines 75-106.  bat_sr and bowl_economy are in hundredths (round(., 2)),
\* bowl_overs is the pair printed as "overs.balls".  The list's order is the
\* iteration order of a set and is not modelled: rows are keyed by player.
PlayerRow(bs, ws, player, match_id, innings_number, team_name) ==
    LET b_stats == Get(bs, player, EmptyDict)
        w_stats == Get(ws, player, EmptyDict)
        balls_faced == Get(b_stats, "balls_faced", 0)
        balls_bowled == Get(w_stats, "balls_bowled", 0)
        runs_scored == Get(b_stats, "runs", 0)
        runs_conceded == Get(w_stats, "runs_conceded", 0)
    IN  [match_id |-> match_id,
         innings_number |-> innings_number,
         innings_team |-> team_name,
         player_name |-> player,
         bat_runs |-> runs_scored,
         bat_balls_faced |-> balls_faced,
         bat_4s |-> Get(b_stats, "fours", 0),
         bat_6s |-> Get(b_stats, "sixes", 0),
         bat_sr |-> IF balls_faced > 0
                    THEN RoundedRate(runs_scored, balls_faced, 100) ELSE 0,
         bat_dismissal |-> Get(b_stats, "dismissal", None),
         bat_out_by |-> Get(b_stats, "out_by", None),
         bowl_runs_conceded |-> runs_conceded,
         bowl_wickets |-> Get(w_stats, "wickets", 0),
         bowl_balls_bowled |-> balls_bowled,
         bowl_overs |-> <<balls_bowled \div 6, balls_bowled % 6>>,
         bowl_economy |-> IF balls_bowled > 0
                          THEN RoundedRate(runs_conceded, balls_bowled, 6) ELSE 0,
         bowl_extras |-> Get(w_stats, "extras", 0)]

\* Lines 68-109.
InningsRows(bs, ws, match_id, innings_number, team_name) ==
    [player \in (DOMAIN bs) \cup (DOMAIN ws) |->
        PlayerRow(bs, ws, player, match_id, innings_number, team_name)]


\* Lines 19-63: pass 1 over the deliveries of the overs, in order; the loop
\* ends at the first exception.
RECURSIVE Pass1(_, _)
Pass1(s, ds) ==
    IF ds = <<>> \/ s.exc # None THEN s
    ELSE Only({Pass1(next, Tail(ds)) : next \in {LoopBody(s, Head(ds))}})

\* Lines 19-20: the deliveries of the overs, in order.
RECURSIVE OverDeliveries(_)
OverDeliveries(overs) ==
    IF overs = <<>> THEN <<>>
    ELSE Get(Head(overs), "deliveries", <<>>) \o OverDeliveries(Tail(overs))

\* Lines 9-109: the rows of one innings, or the exception raised.
AnalysisResult(s, match_id, innings_number, team_name) ==
    IF s.exc # None THEN [rows |-> {}, exc |-> s.exc]
    ELSE [rows |-> {PlayerRow(s.batting_stats, s.bowling_stats, player, match_id,
                              innings_number, team_name) :
                        player \in (DOMAIN s.batting_stats) \cup (DOMAIN s.bowling_stats)},
          exc |-> None]

analyze_innings_deliveries(innings, match_id, innings_number) ==
    Only({AnalysisResult(s, match_id, innings_number, Get(innings, "team", None)) :
            s \in {Pass1(LoopStart, OverDeliveries(Get(innings, "overs", <<>>)))}})

-----------------------------------------------------------------------------
(* The innings analysis as a state machine: one step per delivery.         *)

\* The arguments the innings under analysis is called with.
InningsMatchId == "m1"
InningsNumber == 1
InningsTeam == "T1"

InningsIdle ==
    /\ deliveries = <<>>
    /\ batting_stats = EmptyDict
    /\ bowling_stats = EmptyDict
    /\ total_balls = 0
    /\ innings_rows = EmptyDict

BatchIdle ==
    /\ file_paths = <<>>
    /\ file_index = 0
    /\ combined_data = {}
    /\ csv_written = FALSE

FeaturesIdle == df = <<>>

\* Lines 14-16.
InningsInit ==
    /\ pc = "pass1"
    /\ exc = None
    /\ InningsIdle
    /\ BatchIdle
    /\ FeaturesIdle

\* Lines 20-63 for the next delivery d of the innings.
AnalyzeDelivery(d) ==
    /\ pc = "pass1"
    /\ Len(deliveries) < MaxDeliveries
    /\ \E s \in {LoopBody([batting_stats |-> batting_stats,
                             bowling_stats |-> bowling_stats,
                             total_balls |-> total_balls, exc |-> None], d)} :
           /\ batting_stats' = s.batting_stats
           /\ bowling_stats' = s.bowling_stats
           /\ total_balls' = s.total_balls
           /\ exc' = s.exc
           /\ pc' = IF s.exc # None THEN "raised" ELSE "pass1"
    /\ deliveries' = Append(deliveries, d)
    /\ UNCHANGED <<innings_rows, batch_vars, df>>

\* Lines 65-109, once the deliveries are exhausted.
Finalize ==
    /\ pc = "pass1"
    /\ innings_rows' = InningsRows(batting_stats, bowling_stats, InningsMatchId,
                                   InningsNumber, InningsTeam)
    /\ pc' = "done"
    /\ UNCHANGED <<exc, deliveries, batting_stats, bowling_stats, total_balls,
                   batch_vars, df>>

-----------------------------------------------------------------------------
(* The deliveries the innings specifications draw from.                    *)

Delivery(batter, bowler, runs, extras, wickets) ==
    [batter |-> batter, bowler |-> bowler, runs |-> runs, extras |-> extras,
     wickets |-> wickets]

\* <<batter, bowler>>: X bowls, and bats in a delivery of his own.
Pairings == {<<"A", "X">>, <<"A", None>>, <<None, "X">>, <<"X", None>>}

\* <<runs, extras>> of one delivery.
RunsExtras ==
    { <<[batter |-> 4, extras |-> 0, total |-> 4], EmptyDict>>,
      <<[batter |-> 1, extras |-> 0, total |-> 1], EmptyDict>>,
      <<[total |-> 1], [wides |-> 1]>>,
      <<[batter |-> 0, extras |-> 1, total |-> 1], [wides |-> 1]>>,
      <<[batter |-> 1, extras |-> 1, total |-> 2], [noballs |-> 1]>>,
      <<[batter |-> 0, extras |-> 1, total |-> 1], [byes |-> 1]>>,
      <<[batter |-> 0, extras |-> 0, total |-> 0], [wides |-> 0]>> }

RunsDeliveries ==
    { Delivery(p[1], p[2], re[1], re[2], <<>>) : p \in Pairings, re \in RunsExtras }

Wicket(kind, player_out, has_fielders, fielders) ==
    [kind |-> kind, player_out |-> player_out, has_fielders |-> has_fielders,
     fielders |-> fielders]

WicketLists ==
    { <<>>,
      <<Wicket("caught", "A", TRUE, <<"F">>)>>,
      <<Wicket("bowled", "A", FALSE, <<>>)>>,
      <<Wicket("caught", "A", TRUE, <<>>)>>,
      <<Wicket("stumped", "A", TRUE, <<None>>)>>,
      <<Wicket("run out", "A", TRUE, <<"F">>)>>,
      <<Wicket("retired hurt", "A", FALSE, <<>>)>>,
      <<Wicket("run out", "B", TRUE, <<"F">>), Wicket("lbw", "A", FALSE, <<>>)>>,
      <<Wicket("hit wicket", "A", FALSE, <<>>), Wicket("run out", "B", TRUE, <<"F">>)>> }

WicketPairings == {<<"A", "X">>, <<"A", None>>, <<None, "X">>}

WicketDeliveries ==
    { Delivery(p[1], p[2], [batter |-> 0, extras |-> 0, total |-> 0], EmptyDict, w) :
        p \in WicketPairings, w \in WicketLists }

\* An innings whose deliveries vary in runs and extras.
NextInnings == (\E d \in RunsDeliveries : AnalyzeDelivery(d)) \/ Finalize
SpecInnings == InningsInit /\ [][NextInnings]_vars

\* An innings whose deliveries vary in wicket events.
NextWickets == (\E d \in WicketDeliveries : AnalyzeDelivery(d)) \/ Finalize
SpecWickets == InningsInit /\ [][NextWickets]_vars

-----------------------------------------------------------------------------
(* Properties of the innings analysis.                                     *)

\* What is read off the state for a player: zero when the player has no entry
\* or the entry has no such field, as pass 2 reads it.
StatOf(m, player, f) == Get(Get(m, player, EmptyDict), f, 0)

Players == {"A", "B", "X"}

Consumed == {deliveries[i] : i \in 1..Len(deliveries)}
ConsumedIdx == 1..Len(deliveries)

RECURSIVE SumOver(_, _)
SumOver(S, f) ==
    IF S = {} THEN 0
    ELSE LET x == CHOOSE y \in S : TRUE IN f[x] + SumOver(S \ {x}, f)

\* The delivery's extras mapping has neither a 'wides' nor a 'noballs' key.
NeitherKey(d) == ~("wides" \in DOMAIN d.extras \/ "noballs" \in DOMAIN d.extras)

RunsField(d, f) == IF f \in DOMAIN d.runs THEN d.runs[f] ELSE 0

SumRuns(f) == SumOver(ConsumedIdx, [i \in ConsumedIdx |-> RunsField(deliveries[i], f)])

SumBatRuns ==
    SumOver(DOMAIN innings_rows, [p \in DOMAIN innings_rows |-> innings_rows[p].bat_runs])

\* Every delivery names a batter and its runs add up: total = batter + extras.
Consistent(d) ==
    /\ d.batter # None
    /\ RunsField(d, "total") = RunsField(d, "batter") + RunsField(d, "extras")

\* C1, as claimed: for any innings the analysis accepts, once all deliveries
\* are accumulated, the batting runs of all player rows plus the extras of
\* all balls equal the total runs of all balls.
C1_Original ==
    pc = "done" => SumBatRuns + SumRuns("extras") = SumRuns("total")

\* C1, amended: the same equality for every accepted innings in which each
\* delivery names a batter and has runs.total = runs.batter + runs.extras
\* (a field absent from the runs record counting as 0).
C1_RunsBalance ==
    (pc = "done" /\ \A d \in Consumed : Consistent(d))
        => SumBatRuns + SumRuns("extras") = SumRuns("total")

C1_Witness ==
    /\ pc = "done"
    /\ Len(deliveries) = MaxDeliveries
    /\ \A d \in Consumed : Consistent(d)
    /\ \E d \in Consumed : RunsField(d, "extras") > 0 /\ RunsField(d, "batter") > 0
    /\ \E d \in Consumed : d.batter = "X"
    /\ innings_rows["A"].bat_runs > 0
    /\ "X" \in DOMAIN bowling_stats

ValidFaced(p) == Cardinality({i \in ConsumedIdx :
                                deliveries[i].batter = p /\ NeitherKey(deliveries[i])})
ValidBowled(p) == Cardinality({i \in ConsumedIdx :
                                 deliveries[i].bowler = p /\ NeitherKey(deliveries[i])})

\* C3: after any sequence of deliveries the analysis accepts, each batter's
\* balls_faced is the number of his deliveries whose extras mapping has
\* neither a 'wides' nor a 'noballs' key, each bowler's balls_bowled is the
\* number of his deliveries with neither key (a key present with value 0
\* counts as present), and the rows of pass 2 carry the same counts.
C3_ValidBallCounts ==
    /\ pc \in {"pass1", "done"} =>
          \A p \in Players :
              /\ StatOf(batting_stats, p, "balls_faced") = ValidFaced(p)
              /\ StatOf(bowling_stats, p, "balls_bowled") = ValidBowled(p)
    /\ pc = "done" =>
          \A p \in DOMAIN innings_rows :
              /\ innings_rows[p].bat_balls_faced = ValidFaced(p)
              /\ innings_rows[p].bowl_balls_bowled = ValidBowled(p)

C3_Witness ==
    /\ pc = "done"
    /\ \E i \in ConsumedIdx :
          /\ deliveries[i].batter = "A" /\ deliveries[i].bowler = "X"
          /\ "wides" \in DOMAIN deliveries[i].extras
          /\ deliveries[i].extras["wides"] = 0
    /\ \E i \in ConsumedIdx : "noballs" \in DOMAIN deliveries[i].extras
    /\ innings_rows["A"].bat_balls_faced = 1
    /\ innings_rows["X"].bowl_balls_bowled = 1

ExtrasMappingTotal(d) ==
    SumOver(DOMAIN d.extras, [k \in DOMAIN d.extras |-> d.extras[k]])

\* C4, as claimed: the extras conceded by a bowler are the extras-mapping
\* totals (wides, no-balls, byes and leg-byes) of the deliveries he bowled.
C4_Original ==
    pc \in {"pass1", "done"} =>
        \A p \in Players :
            StatOf(bowling_stats, p, "extras") =
                SumOver({i \in ConsumedIdx : deliveries[i].bowler = p},
                        [i \in ConsumedIdx |-> ExtrasMappingTotal(deliveries[i])])

\* C4, amended: every delivery with a bowler adds to the bowler's extras the
\* value runs.extras of the delivery (0 when the runs record has no 'extras'
\* entry), whatever its extras mapping holds.
C4_RunsExtrasConceded ==
    /\ pc \in {"pass1", "done"} =>
          \A p \in Players :
              StatOf(bowling_stats, p, "extras") =
                  SumOver({i \in ConsumedIdx : deliveries[i].bowler = p},
                          [i \in ConsumedIdx |-> RunsField(deliveries[i], "extras")])
    /\ pc = "done" =>
          \A p \in DOMAIN innings_rows :
              innings_rows[p].bowl_extras = StatOf(bowling_stats, p, "extras")

C4_Witness ==
    /\ pc = "done"
    /\ \E i \in ConsumedIdx :
          /\ deliveries[i].bowler = "X"
          /\ deliveries[i].extras = [wides |-> 1]
          /\ deliveries[i].runs = [total |-> 1]
    /\ \E i \in ConsumedIdx :
          /\ deliveries[i].bowler = "X"
          /\ deliveries[i].extras = [noballs |-> 1]
    /\ innings_rows["X"].bowl_extras = 1

CreditedDeliveries(p) ==
    {i \in ConsumedIdx :
        /\ deliveries[i].bowler = p
        /\ \E j \in 1..Len(deliveries[i].wickets) :
              deliveries[i].wickets[j].kind \in
                  {"bowled", "caught", "lbw", "stumped", "hit wicket"}}

\* C5, as claimed: a bowler's wickets count exactly his deliveries that carry
\* a wicket event of a bowler-credited kind, whatever the number and order of
\* the wicket events of a delivery.
C5_Claim ==
    pc \in {"pass1", "done"} =>
        \A p \in Players :
            StatOf(bowling_stats, p, "wickets") = Cardinality(CreditedDeliveries(p))

\* The wicket events of d that dismiss its batter.
OwnDismissals(d) ==
    {j \in 1..Len(d.wickets) : d.batter # None /\ d.wickets[j].player_out = d.batter}

\* The credit the claim gives for event w of delivery d: the first listed
\* fielder's name if a fielder is listed, else the bowler.
ClaimedOutBy(d, w) ==
    IF w.has_fielders /\ Len(w.fielders) > 0 /\ w.fielders[1] # None
    THEN w.fielders[1] ELSE d.bowler

\* C6, as claimed: a delivery with a wicket event that dismisses its batter
\* is processed without error and leaves the batter's dismissal at that
\* event's kind and out_by at the first listed fielder, or at the bowler when
\* no fielder is listed (the list absent or empty).
C6_Claim ==
    (Len(deliveries) > 0 /\ pc \in {"pass1", "raised"}) =>
        LET d == deliveries[Len(deliveries)]
        IN  OwnDismissals(d) # {} =>
                /\ pc # "raised"
                /\ \E j \in OwnDismissals(d) :
                      /\ batting_stats[d.batter].dismissal = d.wickets[j].kind
                      /\ batting_stats[d.batter].out_by = ClaimedOutBy(d, d.wickets[j])

-----------------------------------------------------------------------------
(* extract_data_from_match_file and process_all_files_to_csv.              *)

\* A match file is [name, parses, data]: name is <<stem, extension>> of its
\* base name, parses tells whether json.load succeeds, data is the dict read.

\* ', '.join(names), as the pieces of the string.
RECURSIVE Join(_)
Join(names) ==
    IF Len(names) <= 1 THEN names
    ELSE <<Head(names), ", ">> \o Join(Tail(names))

\* Lines 122-135.  The exception is the IndexError of [0] or [1] on a list
\* that is too short; the entries are evaluated in the order written.
MatchData(file) ==
    LET info == Get(file.data, "info", EmptyDict)
        dates == Get(info, "dates", <<"Unknown">>)
        teams == Get(info, "teams", <<"">>)
    IN  IF Len(dates) < 1 \/ Len(teams) < 2
        THEN [exc |-> "IndexError", match_data |-> EmptyDict]
        ELSE [exc |-> None,
              match_data |->
                [file_name |-> file.name,
                 match_id |-> Get(Get(info, "event", EmptyDict), "match_number",
                                  file.name[1]),
                 date |-> dates[1],
                 venue |-> Get(info, "venue", None),
                 team_1 |-> teams[1],
                 team_2 |-> teams[2],
                 toss_winner |-> Get(Get(info, "toss", EmptyDict), "winner", None),
                 result_winner |-> Get(Get(info, "outcome", EmptyDict), "winner", None),
                 player_of_match |-> Join(Get(info, "player_of_match", <<>>))]]

\* Line 146: row.update(match_data).
RowUpdate(row, match_data) ==
    [k \in (DOMAIN row) \cup (DOMAIN match_data) |->
        IF k \in DOMAIN match_data THEN match_data[k] ELSE row[k]]

\* Lines 140-147: the rows of innings i, i+1, ... added to those collected.
RECURSIVE InningsLoop(_, _, _, _)
InningsLoop(innings, i, match_data, rows) ==
    IF i > Len(innings) THEN [exc |-> None, rows |-> rows]
    ELSE Only({IF r.exc # None THEN [exc |-> r.exc, rows |-> rows]
               ELSE InningsLoop(innings, i + 1, match_data,
                                rows \cup {RowUpdate(row, match_data) : row \in r.rows}) :
               r \in {analyze_innings_deliveries(innings[i], match_data.match_id, i)}})

\* Lines 113-149.  returned is FALSE for the None of line 120; the rows are a
\* set because their order is that of pass 2.
extract_data_from_match_file(file) ==
    IF ~file.parses THEN [exc |-> None, returned |-> FALSE, rows |-> {}]
    ELSE Only({IF m.exc # None THEN [exc |-> m.exc, returned |-> FALSE, rows |-> {}]
               ELSE Only({[exc |-> r.exc, returned |-> r.exc = None, rows |-> r.rows] :
                          r \in {InningsLoop(Get(file.data, "innings", <<>>), 1,
                                             m.match_data, {})}}) :
               m \in {MatchData(file)}})

\* The files a directory may hold.
Ball(batter, bowler, batter_runs) ==
    Delivery(batter, bowler,
             [batter |-> batter_runs, extras |-> 0, total |-> batter_runs],
             EmptyDict, <<>>)

FullInfo ==
    [teams |-> <<"T1", "T2">>, dates |-> <<"2024-01-01">>, venue |-> "V",
     event |-> [match_number |-> "7"], toss |-> [winner |-> "T1"],
     outcome |-> [winner |-> "T2"], player_of_match |-> <<"A", "X">>]

TeamsInfo == [teams |-> <<"T1", "T2">>]

FirstInnings ==
    [team |-> "T1",
     overs |-> <<[deliveries |-> <<Ball("A", "X", 4), Ball("A", "X", 1)>>]>>]

SecondInnings ==
    [team |-> "T2", overs |-> <<[deliveries |-> <<Ball("X", "A", 6)>>]>>]

Files ==
    { [name |-> <<"m1", "json">>, parses |-> TRUE,
       data |-> [info |-> FullInfo, innings |-> <<FirstInnings, SecondInnings>>]],
      [name |-> <<"m2", "json">>, parses |-> TRUE,
       data |-> [info |-> TeamsInfo, innings |-> <<FirstInnings>>]],
      [name |-> <<"m3", "json">>, parses |-> FALSE, data |-> EmptyDict],
      [name |-> <<"m4", "json">>, parses |-> TRUE,
       data |-> [innings |-> <<FirstInnings>>]],
      [name |-> <<"m5", "json">>, parses |-> TRUE, data |-> [info |-> FullInfo]] }

\* The lists glob may return: distinct files, at most MaxFiles of them.
FileLists(n) == UNION {[1..k -> Files] : k \in 0..n}

Distinct(l) == \A i, j \in 1..Len(l) : i # j => l[i] # l[j]

\* Line 160.
BatchInit ==
    /\ pc = "glob"
    /\ exc = None
    /\ file_paths \in {l \in FileLists(MaxFiles) : Distinct(l)}
    /\ file_index = 0
    /\ combined_data = {}
    /\ csv_written = FALSE
    /\ InningsIdle
    /\ FeaturesIdle

\* Lines 162-168.
CheckFiles ==
    /\ pc = "glob"
    /\ pc' = IF file_paths = <<>> THEN "returned" ELSE "files"
    /\ UNCHANGED <<exc, innings_vars, batch_vars, df>>

\* Lines 170-177: one iteration of the loop over the files.
ProcessFile ==
    /\ pc = "files"
    /\ file_index < Len(file_paths)
    /\ \E r \in {extract_data_from_match_file(file_paths[file_index + 1])} :
           /\ exc' = r.exc
           /\ pc' = IF r.exc # None THEN "raised" ELSE "files"
           /\ combined_data' = IF r.exc = None /\ r.returned /\ r.rows # {}
                               THEN combined_data \cup r.rows
                               ELSE combined_data
    /\ file_index' = file_index + 1
    /\ UNCHANGED <<innings_vars, file_paths, csv_written, df>>

\* Lines 179-190.
SaveCsv ==
    /\ pc = "files"
    /\ file_index = Len(file_paths)
    /\ csv_written' = (combined_data # {})
    /\ pc' = IF combined_data = {} THEN "returned" ELSE "saved"
    /\ UNCHANGED <<exc, innings_vars, file_paths, file_index, combined_data, df>>

NextBatch == CheckFiles \/ ProcessFile \/ SaveCsv
SpecBatch == BatchInit /\ [][NextBatch]_vars

\* A file is valid when it parses and holds both top-level sections.
ValidFile(file) ==
    file.parses /\ "info" \in DOMAIN file.data /\ "innings" \in DOMAIN file.data

\* The rows of file f in the data collected.
RowsOf(f) == {row \in combined_data : row.file_name = f.name}

\* C2, as claimed: no exception leaves the batch, every file is processed,
\* and at the end the data collected hold rows of every valid file and of no
\* other file.
C2_Claim ==
    /\ pc # "raised"
    /\ pc \in {"returned", "saved"} =>
          /\ file_index = Len(file_paths)
          /\ \A i \in 1..Len(file_paths) :
                (RowsOf(file_paths[i]) # {}) <=> ValidFile(file_paths[i])

-----------------------------------------------------------------------------
(* 02_feature_engineering.py: the script, stage by stage, on the frame df.  *)

\* A CSV cell is <<>> when empty (read as NaN) and <<v>> otherwise.  A float
\* that is a ratio is the reduced fraction <<numerator, denominator>>.
\* ball_number, a float "over.ball", is held in tenths: 5.6 is 56.

RECURSIVE GCD(_, _)
GCD(a, b) == IF b = 0 THEN a ELSE GCD(b, a % b)

\* n / d for n >= 0 and d > 0.
Ratio(n, d) == <<n \div GCD(n, d), d \div GCD(n, d)>>

Min(a, b) == IF a <= b THEN a ELSE b

\* Line 47.
window == 12

\* df[col] = ... : the rows with the columns of new[i] set.
Assign(d, new) == [i \in 1..Len(d) |-> RowUpdate(d[i], new[i])]

\* Lines 27-33.
classify_phase(over) ==
    IF 1 <= over /\ over <= 6 THEN "powerplay"
    ELSE IF 7 <= over /\ over <= 15 THEN "middle"
    ELSE "death"

\* Lines 14-35 for one row: fillna(0), notna().astype(int), and the two
\* halves of str(ball_number) around the point.
CleanRow(row) ==
    [bat_runs |-> IF row.bat_runs = <<>> THEN 0 ELSE row.bat_runs[1],
     wicket_flag |-> IF row.wicket_kind = <<>> THEN 0 ELSE 1,
     over |-> row.ball_number \div 10,
     ball_in_over |-> row.ball_number % 10,
     phase |-> classify_phase(row.ball_number \div 10)]

\* Names in the order sort_values puts them.
NameRank(name) == CASE name = "A" -> 1 [] name = "B" -> 2
                    [] name = "X" -> 3 [] name = "Y" -> 4

\* r1 sorts before r2 on [by, "match_id", "inning", "ball_number"], and on
\* ["match_id", "inning", "ball_number"] when by is None.
SortsBefore(r1, r2, by) ==
    \/ by # None /\ NameRank(r1[by]) < NameRank(r2[by])
    \/ /\ by = None \/ r1[by] = r2[by]
       /\ \/ r1.match_id < r2.match_id
          \/ /\ r1.match_id = r2.match_id
             /\ \/ r1.inning < r2.inning
                \/ r1.inning = r2.inning /\ r1.ball_number < r2.ball_number

\* df.sort_values([by, "match_id", "inning", "ball_number"]): a stable sort,
\* rows with equal keys keep their order.  rank[i] is the number of rows that
\* come before row i.
SortValues(d, by) ==
    Only({[k \in 1..Len(d) |-> d[CHOOSE i \in 1..Len(d) : rank[i] = k - 1]] :
          rank \in {[i \in 1..Len(d) |->
                       Cardinality({j \in 1..Len(d) :
                           \/ SortsBefore(d[j], d[i], by)
                           \/ ~SortsBefore(d[i], d[j], by) /\ j < i})]
                    @@ <<>>}})

\* f[lo] + ... + f[hi]
RECURSIVE SumRange(_, _, _)
SumRange(f, lo, hi) == IF lo > hi THEN 0 ELSE f[hi] + SumRange(f, lo, hi - 1)

\* groupby(by).cumcount() + 1, as a column: the place of each row among the
\* rows of its group.
CumCount(d, by) ==
    [i \in 1..Len(d) |-> Cardinality({j \in 1..i : d[j][by] = d[i][by]})]

\* rolling(w, min_periods=1): a row of the group that is place cj is in the
\* window of the row that is place ci >= cj when it is among the last w.
InWindow(ci, cj, w) == ci - cj < w

\* groupby(by)[col].transform(lambda x: x.rolling(w, min_periods=1).sum()) at
\* row i, cum being CumCount(d, by).
RollingSum(d, by, col, cum, i, w) ==
    SumRange([j \in 1..i |-> IF d[j][by] = d[i][by] /\ InWindow(cum[i], cum[j], w)
                              THEN d[j][col] ELSE 0],
             1, i)

\* ... rolling(w, min_periods=1).mean() at row i: the sum over the
\* observations in the window.
RollingMean(d, by, col, cum, i, w) ==
    Ratio(RollingSum(d, by, col, cum, i, w), Min(cum[i], w))

\* Line 53 and line 74: the cumulative count the rates are divided by.
RollingBalls_Mutant(cum, i, w) == Min(cum[i], w)
RollingBalls(cum, i, w) == cum[i]

\* Lines 43-44.
WithIndicators(d) ==
    Assign(d, [i \in 1..Len(d) |->
                 [is_dot_ball |-> IF d[i].bat_runs = 0 THEN 1 ELSE 0,
                  is_boundary |-> IF d[i].runs_batter \in {4, 6} THEN 1 ELSE 0]])

\* Lines 49-62 on the frame sorted by batter, cum being its cumcount + 1.
BatterColumns(d, cum) ==
    Assign(d, [i \in 1..Len(d) |->
        [bat_rolling_runs |-> RollingSum(d, "batter", "bat_runs", cum, i, window),
         bat_rolling_balls |-> RollingBalls(cum, i, window),
         bat_strike_rate |->
             Ratio(RollingSum(d, "batter", "bat_runs", cum, i, window) * 100,
                   RollingBalls(cum, i, window)),
         bat_boundary_pct |-> RollingMean(d, "batter", "is_boundary", cum, i, window),
         bat_dot_pct |-> RollingMean(d, "batter", "is_dot_ball", cum, i, window)]])

\* Lines 70-79 on the frame sorted by bowler.
BowlerColumns(d, cum) ==
    Assign(d, [i \in 1..Len(d) |->
        [bowl_rolling_runs_conceded |->
             RollingSum(d, "bowler", "bat_runs", cum, i, window),
         bowl_rolling_balls |-> RollingBalls(cum, i, window),
         bowl_economy |->
             Ratio(RollingSum(d, "bowler", "bat_runs", cum, i, window) * 6,
                   RollingBalls(cum, i, window)),
         bowl_wicket_pct |-> RollingMean(d, "bowler", "wicket_flag", cum, i, window)]])

\* Rows i and j are of one (match_id, inning) group.
SameInnings(d, i, j) == d[i].match_id = d[j].match_id /\ d[i].inning = d[j].inning

\* groupby(["match_id", "inning"])[col].cumsum() at row i.
CumSum(d, col, i) ==
    SumRange([j \in 1..i |-> IF SameInnings(d, i, j) THEN d[j][col] ELSE 0], 1, i)

\* Lines 88-92 on the frame sorted by match, innings and ball.
ContextColumns(d) ==
    Assign(d, [i \in 1..Len(d) |->
        [inning_runs_cum |-> CumSum(d, "bat_runs", i),
         inning_wkts_cum |-> CumSum(d, "wicket_flag", i),
         wickets_in_hand |-> 10 - CumSum(d, "wicket_flag", i)]])

\* Lines 95-100 on the rows x of one group.  The condition of line 100 is a
\* Series, remaining_balls > 0, and the truth value of a Series is a
\* ValueError whatever its length and content.
compute_rrr(x) ==
    IF Len(x) = 0 THEN [exc |-> None, value |-> <<>>]
    ELSE [exc |-> "ValueError", value |-> <<>>]

\* The rows of d in the group of row i, in order.
GroupOf(d, i) == SelectSeq(d, LAMBDA r : r.match_id = d[i].match_id /\ r.inning = d[i].inning)

-----------------------------------------------------------------------------
(* The script as a state machine.                                          *)

\* The rows cricket_match_data.csv may hold: ball after ball of one match,
\* six balls to the over, X and Y bowling alternate overs, RowsPerInnings
\* balls to the innings, the outcome of a ball fixed by its place in the over
\* and its batter free.  The fourth ball of an over is a wicket whose
\* bat_runs cell is empty.
BallOutcome(ball) ==
    CASE ball = 1 -> [bat_runs |-> <<1>>, runs_batter |-> 1, wicket_kind |-> <<>>]
      [] ball = 2 -> [bat_runs |-> <<0>>, runs_batter |-> 0, wicket_kind |-> <<>>]
      [] ball = 3 -> [bat_runs |-> <<4>>, runs_batter |-> 4, wicket_kind |-> <<>>]
      [] ball = 4 -> [bat_runs |-> <<>>, runs_batter |-> 0, wicket_kind |-> <<"bowled">>]
      [] ball = 5 -> [bat_runs |-> <<6>>, runs_batter |-> 6, wicket_kind |-> <<>>]
      [] ball = 6 -> [bat_runs |-> <<2>>, runs_batter |-> 2, wicket_kind |-> <<>>]

CsvRow(n, batter) ==
    LET place == (n - 1) % RowsPerInnings
    IN  RowUpdate(BallOutcome((place % 6) + 1),
                  [match_id |-> 1,
                   inning |-> (n - 1) \div RowsPerInnings + 1,
                   ball_number |-> (place \div 6) * 10 + (place % 6) + 1,
                   batter |-> batter,
                   bowler |-> IF (place \div 6) % 2 = 0 THEN "X" ELSE "Y"])

Batters == {"A", "B"}

\* Line 7.
FeaturesInit ==
    /\ pc = "read_csv"
    /\ exc = None
    /\ df = <<>>
    /\ InningsIdle
    /\ BatchIdle

\* Line 7: one more row of the file.
ReadRow(batter) ==
    /\ pc = "read_csv"
    /\ Len(df) < MaxRows
    /\ df' = Append(df, CsvRow(Len(df) + 1, batter))
    /\ UNCHANGED <<pc, exc, innings_vars, batch_vars>>

\* Lines 14-35, on a file of at least one row.
Clean ==
    /\ pc = "read_csv"
    /\ Len(df) >= 1
    /\ df' = Assign(df, [i \in 1..Len(df) |-> CleanRow(df[i])])
    /\ pc' = "cleaned"
    /\ UNCHANGED <<exc, innings_vars, batch_vars>>

\* Lines 41-62.
BatterFeatures ==
    /\ pc = "cleaned"
    /\ \E d \in {WithIndicators(SortValues(df, "batter"))} :
         \E cum \in {CumCount(d, "batter")} : df' = BatterColumns(d, cum)
    /\ pc' = "batter_features"
    /\ UNCHANGED <<exc, innings_vars, batch_vars>>

\* Lines 68-79.
BowlerFeatures ==
    /\ pc = "batter_features"
    /\ \E d \in {SortValues(df, "bowler")} :
         \E cum \in {CumCount(d, "bowler")} : df' = BowlerColumns(d, cum)
    /\ pc' = "bowler_features"
    /\ UNCHANGED <<exc, innings_vars, batch_vars>>

\* Lines 85-92.
MatchContext ==
    /\ pc = "bowler_features"
    /\ \E d \in {SortValues(df, None)} : df' = ContextColumns(d)
    /\ pc' = "match_context"
    /\ UNCHANGED <<exc, innings_vars, batch_vars>>

\* Line 102: compute_rrr applied to each group; its exception ends the script.
RequiredRunRate ==
    /\ pc = "match_context"
    /\ IF \E i \in 1..Len(df) : compute_rrr(GroupOf(df, i)).exc # None
       THEN /\ exc' = "ValueError"
            /\ pc' = "raised"
            /\ df' = df
       ELSE /\ exc' = exc
            /\ pc' = "required_run_rate"
            /\ df' = Assign(df, [i \in 1..Len(df) |->
                                   [required_run_rate |-> compute_rrr(GroupOf(df, i)).value]])
    /\ UNCHANGED <<innings_vars, batch_vars>>

NextFeatures ==
    \/ \E batter \in Batters : ReadRow(batter)
    \/ Clean
    \/ BatterFeatures
    \/ BowlerFeatures
    \/ MatchContext
    \/ RequiredRunRate
SpecFeatures == FeaturesInit /\ [][NextFeatures]_vars

-----------------------------------------------------------------------------
(* The rolling features of a player, C9.                                    *)

\* Record j is no later than record i in delivery order.
NoLater(j, i) ==
    \/ df[j].match_id < df[i].match_id
    \/ /\ df[j].match_id = df[i].match_id
       /\ \/ df[j].inning < df[i].inning
          \/ df[j].inning = df[i].inning /\ df[j].ball_number <= df[i].ball_number

\* The records of the history of the player of record i, up to record i.
HistoryTo(i, by) == {j \in 1..Len(df) : df[j][by] = df[i][by] /\ NoLater(j, i)}

\* Record i is the k-th record of its player's history.
Place(i, by) == Cardinality(HistoryTo(i, by))

\* The runs of the last n records of the history of the player of record i.
LastRuns(i, by, n) ==
    LET history == HistoryTo(i, by)
        last == {j \in history : Cardinality({m \in history : ~NoLater(m, j)}) < n}
    IN  SumOver(last, [j \in last |-> df[j].bat_runs])

\* The rolling pass over the batters, over the bowlers, has just run.
BatterDone == pc = "batter_features"
BowlerDone == pc = "bowler_features"

\* C9: when the rolling pass over the batters (over the bowlers) has run, the
\* k-th record of every player's history holds as rolling runs the sum of the
\* runs of its last min(k, 12) records, as rolling balls k itself, and as
\* rate the rolling runs over the rolling balls times 100 (times 6 for a
\* bowler); the first record of a history holds that ball's runs times 100,
\* whatever the records of the other players.
C9_RollingFeatures ==
    /\ BatterDone =>
         \A i \in 1..Len(df) :
            LET k == Place(i, "batter")
                runs == LastRuns(i, "batter", Min(k, 12))
            IN  /\ df[i].bat_rolling_runs = runs
                /\ df[i].bat_rolling_balls = k
                /\ df[i].bat_strike_rate = Ratio(runs * 100, k)
                /\ k = 1 => df[i].bat_strike_rate = <<df[i].bat_runs * 100, 1>>
    /\ BowlerDone =>
         \A i \in 1..Len(df) :
            LET k == Place(i, "bowler")
                runs == LastRuns(i, "bowler", Min(k, 12))
            IN  /\ df[i].bowl_rolling_runs_conceded = runs
                /\ df[i].bowl_rolling_balls = k
                /\ df[i].bowl_economy = Ratio(runs * 6, k)
                /\ k = 1 => df[i].bowl_economy = <<df[i].bat_runs * 6, 1>>

\* A batter with more records than the window, whose rolling runs have lost
\* a scoring ball, and a second bowler whose history starts after the first
\* bowler's.
C9_Witness ==
    /\ BowlerDone
    /\ \E i \in 1..Len(df) :
          /\ df[i].bat_rolling_balls > window
          /\ df[i].bat_rolling_runs < LastRuns(i, "batter", df[i].bat_rolling_balls)
    /\ \E i, j \in 1..Len(df) :
          /\ df[i].bowler # df[j].bowler
          /\ df[i].bowl_rolling_balls = 1
          /\ df[i].bat_runs > 0
          /\ NoLater(j, i)

-----------------------------------------------------------------------------
(* The stages after line 102: C10, C8 and C7.                               *)

\* Lines 98-99 for one record.
remaining_balls(row) == 120 - (row.over * 6 + row.ball_in_over)

\* The last cumulative runs of the group of record i.
FinalRuns(i) ==
    CHOOSE m \in {df[j].inning_runs_cum : j \in {n \in 1..Len(df) : SameInnings(df, i, n)}} :
        \A j \in 1..Len(df) : SameInnings(df, i, j) => df[j].inning_runs_cum <= m

\* C10, as claimed: the required run rate is computed without an error that
\* ends the script, and each record holds (target - cumulative runs) * 6 /
\* remaining balls, with the target the final cumulative runs of its group
\* plus 1, or no value when no ball remains.
C10_Claim ==
    /\ pc # "raised"
    /\ pc = "required_run_rate" =>
         \A i \in 1..Len(df) :
            df[i].required_run_rate =
               IF remaining_balls(df[i]) > 0
               THEN Ratio((FinalRuns(i) + 1 - df[i].inning_runs_cum) * 6,
                          remaining_balls(df[i]))
               ELSE <<>>

\* Line 111, in halves.
phase_weight ==
    [powerplay |-> 2, middle |-> 3, death |-> 4]

\* Lines 114-116 for one record: the fraction num / den, not reduced, with
\* fillna(0) putting 0 for a required run rate without value.
pressure_index(row) ==
    LET rrr == IF row.required_run_rate = <<>> THEN <<0, 1>>
               ELSE row.required_run_rate
    IN  [num |-> rrr[1] * phase_weight[row.phase],
         den |-> rrr[2] * 2 * (row.wickets_in_hand + 1)]

\* C8, as claimed: the script reaches the pressure index, which is a number
\* >= 0 on every record, and 0 on the records whose required run rate has
\* no value.
C8_Claim ==
    /\ pc # "raised"
    /\ pc = "required_run_rate" =>
         \A i \in 1..Len(df) :
            /\ pressure_index(df[i]).den > 0
            /\ pressure_index(df[i]).num >= 0
            /\ df[i].required_run_rate = <<>> => pressure_index(df[i]).num = 0

\* groupby(["match_id", "inning"])[col].shift(-1) at row i: the value of the
\* next row of the group, none at its last row.
ShiftBack(d, col, i) ==
    LET later == {j \in (i + 1)..Len(d) : SameInnings(d, i, j)}
    IN  IF later = {} THEN <<>>
        ELSE <<d[CHOOSE j \in later : \A n \in later : j <= n][col]>>

\* Lines 123-127.
Targets(d) ==
    SelectSeq(Assign(d, [i \in 1..Len(d) |->
                           [xR_target |-> ShiftBack(d, "bat_runs", i),
                            xW_target |-> ShiftBack(d, "wicket_flag", i)]]),
              LAMBDA r : r.xR_target # <<>> /\ r.xW_target # <<>>)

\* The number of records of d in the group of r.
GroupSize(d, r) ==
    Cardinality({j \in 1..Len(d) : d[j].match_id = r.match_id /\ d[j].inning = r.inning})

\* C7, as claimed: the script reaches target generation, which leaves of
\* every group all records but the last, each with the runs and the wicket
\* flag of the record that follows it.
C7_Claim ==
    /\ pc # "raised"
    /\ pc = "required_run_rate" =>
         /\ \A i \in 1..Len(df) :
               GroupSize(Targets(df), df[i]) = GroupSize(df, df[i]) - 1
         /\ \A i \in 1..Len(Targets(df)) :
               \E j \in 1..Len(df) :
                  /\ df[j].ball_number > Targets(df)[i].ball_number
                  /\ df[j].match_id = Targets(df)[i].match_id
                  /\ df[j].inning = Targets(df)[i].inning
                  /\ Targets(df)[i].xR_target = <<df[j].bat_runs>>
                  /\ Targets(df)[i].xW_target = <<df[j].wicket_flag>>

=============================================================================
